---- MODULE Spec2Model ----
(***************************************************************************)
(* Hextris with the Flutter integration: session acquisition, the game     *)
(* state machine with its pause/resume toggle, the wall-clock countdown    *)
(* and the score submission.                                               *)
(*                                                                         *)
(* Time is counted in units of 200 ms (UnitsPerSecond units make one       *)
(* second), so that the 400 ms delay of pause() is TransitionDelay units   *)
(* and Math.ceil to whole seconds is visible.  Timestamps (Date.now()) and *)
(* the elapsed/remaining seconds of the code are kept in these units; the  *)
(* code's division and multiplication by 1000 are exact at this            *)
(* granularity.  A JavaScript value that may be undefined is a sequence:   *)
(* <<>> is undefined, <<v>> is the value v.  The falsy strings null and '' *)
(* are both the empty string.                                              *)
(***************************************************************************)
EXTENDS Integers, Sequences, FiniteSets, TLC

\* ---------------------------------------------------------------- bounds
MaxNow == 8
MaxSubmitNow == 4
MaxGames == 1
MaxCalls == 2
MaxPolls == 2
MaxSessionNow == 5
MaxLiveNow == 6
MaxGamesInFlight == 2
MaxInFlightNow == 2

\* ------------------------------------------------------ program constants
UnitsPerSecond == 5
TransitionDelay == 2
DefaultTimerDuration == 15

\* The initial value of apiServerUrl and the base address written in
\* submitScoreToFlutter.
DefaultApiServerUrl == "https://api.metaninza.net"
SubmitBaseUrl == "http://192.168.29.71:5006"

Undefined == <<>>
Some(v) == <<v>>
IsDefined(x) == x # <<>>
Val(x) == x[1]

NoValue == ""
Truthy(s) == s # NoValue

Max(a, b) == IF a >= b THEN a ELSE b
Min(a, b) == IF a <= b THEN a ELSE b

\* Math.ceil of a number of units expressed in seconds.
CeilSeconds(u) == IF u % UnitsPerSecond = 0 THEN u \div UnitsPerSecond
                  ELSE (u \div UnitsPerSecond) + 1

\* --------------------------------------------------------------- parseInt
DigitChars == <<"0", "1", "2", "3", "4", "5", "6", "7", "8", "9">>
IsDigit(c) == \E i \in 1..10 : DigitChars[i] = c
DigitVal(c) == (CHOOSE i \in 1..10 : DigitChars[i] = c) - 1

RECURSIVE DigitsPrefix(_, _, _)
\* Value of the longest prefix of decimal digits of s from position i on,
\* <<>> when there is none; acc is the value read so far.
DigitsPrefix(s, i, acc) ==
    IF i > Len(s) \/ ~IsDigit(s[i]) THEN acc
    ELSE DigitsPrefix(s, i + 1,
            Some((IF IsDefined(acc) THEN Val(acc) ELSE 0) * 10 + DigitVal(s[i])))

\* parseInt(s): optional sign, then digits up to the first other character.
\* <<>> is NaN.
ParseInt(s) ==
    IF Len(s) = 0 THEN Undefined
    ELSE IF s[1] = "-"
         THEN LET d == DigitsPrefix(s, 2, Undefined)
              IN IF IsDefined(d) THEN Some(0 - Val(d)) ELSE Undefined
         ELSE DigitsPrefix(s, 1, Undefined)

\* parseInt(raw) || 15 : NaN and 0 are falsy, every other integer is kept.
ParseTimer(raw) ==
    LET p == ParseInt(raw)
    IN IF IsDefined(p) /\ Val(p) # 0 THEN Val(p) ELSE DefaultTimerDuration

\* ------------------------------------------------------------ input sets
\* location.search, fixed for the life of the page.
UrlConfigs ==
    { [poolId |-> "", sessionId |-> "", authToken |-> "", timer |-> <<>>, debug |-> "",
       apiServerUrl |-> "", apiServer |-> ""],
      [poolId |-> "url-pool", sessionId |-> "url-session", authToken |-> "url-token",
       timer |-> <<"2">>, debug |-> "", apiServerUrl |-> "", apiServer |-> "url-api"],
      [poolId |-> "", sessionId |-> "url-session", authToken |-> "url-token",
       timer |-> <<"-", "1">>, debug |-> "", apiServerUrl |-> "", apiServer |-> ""],
      [poolId |-> "", sessionId |-> "", authToken |-> "", timer |-> <<>>, debug |-> "true",
       apiServerUrl |-> "", apiServer |-> ""] }

\* Values the host may give window.__GAME_SESSION__; expiresAt 0 is absent.
InjectedConfigs ==
    { [sessionId |-> "inj-session", token |-> "inj-token", poolId |-> "inj-pool",
       timerDuration |-> Some(<<"1">>), timer |-> Undefined, expiresAt |-> 0,
       apiServerUrl |-> "inj-api", apiServer |-> ""],
      [sessionId |-> "inj-session", token |-> "inj-token", poolId |-> "",
       timerDuration |-> Undefined, timer |-> Some(<<"0">>), expiresAt |-> 0,
       apiServerUrl |-> "", apiServer |-> ""],
      [sessionId |-> "inj-session", token |-> "inj-token", poolId |-> "inj-pool",
       timerDuration |-> Some(<<"x">>), timer |-> Some(<<"2">>), expiresAt |-> 3,
       apiServerUrl |-> "", apiServer |-> ""] }

\* event.data of the flutterParams messages the host may post.
Messages ==
    { [type |-> "flutterParams", poolId |-> "msg-pool", sessionId |-> "msg-session",
       authToken |-> "msg-token", timerDuration |-> <<"2">>,
       apiServerUrl |-> "msg-api", apiServer |-> ""],
      [type |-> "flutterParams", poolId |-> "", sessionId |-> "", authToken |-> "",
       timerDuration |-> <<"-", "1">>, apiServerUrl |-> "", apiServer |-> ""],
      [type |-> "otherMessage", poolId |-> "msg-pool", sessionId |-> "msg-session",
       authToken |-> "msg-token", timerDuration |-> <<"1">>,
       apiServerUrl |-> "msg-api", apiServer |-> ""] }

\* flutterParams messages that carry one of the two identifiers only.
PartialMessages ==
    { [type |-> "flutterParams", poolId |-> "", sessionId |-> "msg-session",
       authToken |-> "", timerDuration |-> <<>>, apiServerUrl |-> "", apiServer |-> ""],
      [type |-> "flutterParams", poolId |-> "", sessionId |-> "",
       authToken |-> "msg-token", timerDuration |-> <<>>, apiServerUrl |-> "",
       apiServer |-> ""] }

\* ------------------------------------------------------------------ state
VARIABLES
    now,                    \* Date.now(), in units
    ticked,                 \* the animation frame of this instant has run
    loaded,                 \* $(document).ready has run
    url,                    \* location.search
    gameSession,            \* window.__GAME_SESSION__, <<>> when not injected
    poolId, sessionId, authToken, gameTimerDuration, sessionReady,
    apiServerUrl,
    posted,                 \* what the last call of initFlutterParams posted to the host
    listeners,              \* message listeners registered: "none", "one" or "many"
    pollTimers,             \* pending setTimeout calls of checkSessionAndUpdateUI:
                            \* the 100 ms one of the load and the 500 ms ones
    gameState,              \* 0 start screen, 1 playing, -1 paused, 2 game over
    prevGameState,
    pausable,
    timeouts,               \* pending setTimeout callbacks of pause()
    gameTimer,              \* remaining time as of the last frame, in units
    gameTimerStartTime,
    gameTimerPausedElapsed,
    score,
    requests,               \* the fetch calls issued so far, with their outcome
    games,                  \* number of games started
    hostNotices,            \* messages sent with sendMessageToFlutter
    backButton,             \* #backButton is shown
    hPauseRem,              \* history: remaining time at the last accepted pause
    hStart,                 \* history: wall-clock time of the last start
    hPaused,                \* history: wall-clock time between accepted pause and resume
    hPauseAt,               \* history: time of the pending accepted pause
    hPlayed,                \* history: wall-clock time spent in gameState 1
    hOver,                  \* history: cause of the last transition to game over
    hOverIds,               \* history: poolId, sessionId, authToken at that transition
    hCalls,                 \* history: pause() calls at the instant of the last pause
                            \* accepted while playing, that pause included
    hHostPause              \* history: the gameState in which handlePause() last did
                            \* nothing since the last start or accepted pause()

timeVars == <<now, ticked>>
sessVars == <<loaded, url, gameSession, poolId, sessionId, authToken,
              gameTimerDuration, sessionReady, apiServerUrl, posted, listeners,
              pollTimers>>
gameVars == <<gameState, prevGameState, pausable, timeouts>>
timerVars == <<gameTimer, gameTimerStartTime, gameTimerPausedElapsed>>
netVars == <<score, requests, games, hostNotices, backButton>>
histVars == <<hPauseRem, hStart, hPaused, hPauseAt, hPlayed, hOver, hOverIds, hCalls,
              hHostPause>>
vars == <<timeVars, sessVars, gameVars, timerVars, netVars, histVars>>

\* The globals as the scripts declare them, before $(document).ready.
Init ==
    /\ now = 0 /\ ticked = FALSE
    /\ loaded = FALSE
    /\ url \in UrlConfigs
    /\ gameSession = Undefined
    /\ poolId = NoValue /\ sessionId = NoValue /\ authToken = NoValue
    /\ gameTimerDuration = DefaultTimerDuration
    /\ sessionReady = FALSE
    /\ apiServerUrl = DefaultApiServerUrl
    /\ posted = <<>>
    /\ listeners = "none"
    /\ pollTimers = [short |-> 0, periodic |-> 0]
    /\ gameState = 0 /\ prevGameState = Undefined /\ pausable = TRUE /\ timeouts = {}
    /\ gameTimer = DefaultTimerDuration * UnitsPerSecond
    /\ gameTimerStartTime = Undefined /\ gameTimerPausedElapsed = Undefined
    /\ score = 0 /\ requests = <<>> /\ games = 0
    /\ hostNotices = <<>> /\ backButton = FALSE
    /\ hPauseRem = Undefined /\ hStart = 0 /\ hPaused = 0 /\ hPauseAt = Undefined
    /\ hPlayed = 0 /\ hOver = "none" /\ hOverIds = <<>> /\ hCalls = 0
    /\ hHostPause = Undefined

\* ---------------------------------------------------------------- session
Or(a, b) == IF Truthy(a) THEN a ELSE b

ExpiredNever(gs, t) == FALSE

\* The injected session has expired at time t.
Expired(gs, t) == gs.expiresAt # 0 /\ t > gs.expiresAt

DebugModeAlways(u) == TRUE

\* getUrlParameter('debug') === 'true'
DebugMode(u) == u.debug = "true"

FromSourceQueryFirst(injected, inj, q) == IF Truthy(q) \/ ~injected THEN q ELSE inj

\* The if (window.__GAME_SESSION__) ... else ... of initFlutterParams: the
\* value read from the injected object when there is one, from the query
\* string when there is none.
FromSource(injected, inj, q) == IF injected THEN inj ELSE q

SessionReadyIdOnly(sid, tok) == Truthy(sid)

\* The test sessionId && authToken that decides the readiness flag.
SessionReady(sid, tok) == Truthy(sid) /\ Truthy(tok)

\* initFlutterParams(): the values of the session globals after the call.
InitFlutterParams ==
    LET injected == IsDefined(gameSession)
        gs == Val(gameSession)
        sid1 == FromSource(injected,
                           IF Expired(gs, now) THEN NoValue ELSE gs.sessionId,
                           url.sessionId)
        tok1 == FromSource(injected,
                           IF Expired(gs, now) THEN NoValue ELSE gs.token,
                           url.authToken)
        pool1 == IF injected
                 THEN (IF Truthy(gs.poolId) THEN gs.poolId ELSE url.poolId)
                 ELSE url.poolId
        dur1 == IF injected
                THEN (IF IsDefined(gs.timerDuration) THEN ParseTimer(Val(gs.timerDuration))
                      ELSE IF IsDefined(gs.timer) THEN ParseTimer(Val(gs.timer))
                      ELSE gameTimerDuration)
                ELSE (IF Len(url.timer) > 0 THEN ParseTimer(url.timer)
                      ELSE gameTimerDuration)
        api1 == IF injected
                THEN (IF Truthy(gs.apiServerUrl) THEN gs.apiServerUrl
                      ELSE IF Truthy(gs.apiServer) THEN gs.apiServer
                      ELSE apiServerUrl)
                ELSE (IF Truthy(Or(url.apiServerUrl, url.apiServer))
                      THEN Or(url.apiServerUrl, url.apiServer)
                      ELSE apiServerUrl)
        debugMode == DebugMode(url)
        useTest == debugMode /\ ~Truthy(sid1) /\ ~Truthy(tok1)
        pool2 == IF useTest THEN Or(url.poolId, Or(pool1, "test-pool-123")) ELSE pool1
        sid2 == IF useTest THEN Or(url.sessionId, Or(sid1, "test-session-456")) ELSE sid1
        tok2 == IF useTest THEN Or(url.authToken, Or(tok1, "test-token-789")) ELSE tok1
    IN [poolId |-> pool2, sessionId |-> sid2, authToken |-> tok2,
        gameTimerDuration |-> dur1,
        sessionReady |-> SessionReady(sid2, tok2),
        apiServerUrl |-> api1,
        posted |-> IF ~injected /\ ~Truthy(sessionId) /\ ~Truthy(authToken)
                   THEN <<"requestSessionParams">> ELSE <<>>]

\* window.addEventListener('message', function ...) with a new function: one
\* more listener; the count is kept as none, one, or more than one.
AddEventListener(l) == IF l = "none" THEN "one" ELSE "many"

\* The assignments of one call of initFlutterParams, which also registers a
\* message listener.
ApplyParams(r) ==
    /\ poolId' = r.poolId
    /\ sessionId' = r.sessionId
    /\ authToken' = r.authToken
    /\ gameTimerDuration' = r.gameTimerDuration
    /\ sessionReady' = r.sessionReady
    /\ apiServerUrl' = r.apiServerUrl
    /\ posted' = r.posted
    /\ listeners' = AddEventListener(listeners)

\* The host injects window.__GAME_SESSION__ (before or after the page loads).
Inject ==
    /\ gameSession = Undefined
    /\ \E c \in InjectedConfigs : gameSession' = Some(c)
    /\ UNCHANGED <<loaded, url, poolId, sessionId, authToken, gameTimerDuration,
                   sessionReady, apiServerUrl, posted, listeners, pollTimers>>
    /\ UNCHANGED <<timeVars, gameVars, timerVars, netVars, histVars>>

\* $(document).ready: the first initFlutterParams(), then initialize(), which
\* sets the timer variables and shows the start screen.
DocumentReady ==
    /\ ~loaded
    /\ loaded' = TRUE
    /\ ApplyParams(InitFlutterParams)
    /\ gameTimer' = InitFlutterParams.gameTimerDuration * UnitsPerSecond
    /\ gameTimerStartTime' = Undefined
    /\ gameTimerPausedElapsed' = Undefined
    /\ prevGameState' = Undefined
    /\ gameState' = 0
    /\ score' = 0
    /\ pollTimers' = [short |-> 1,
                      periodic |-> IF InitFlutterParams.sessionReady THEN 0 ELSE 1]
    /\ UNCHANGED <<url, gameSession, pausable, timeouts, requests, games,
                   hostNotices, backButton>>
    /\ UNCHANGED <<timeVars, histVars>>

\* checkSessionAndUpdateUI(): a poll.  timers are the pending timers when it
\* is called; it sets another 500 ms timer when the session is not ready.
PollBody(timers) ==
    /\ loaded
    /\ ApplyParams(InitFlutterParams)
    /\ IF InitFlutterParams.sessionReady
       THEN pollTimers' = timers
       ELSE /\ timers.periodic < MaxPolls
            /\ pollTimers' = [timers EXCEPT !.periodic = @ + 1]
    /\ UNCHANGED <<loaded, url, gameSession>>
    /\ UNCHANGED <<timeVars, gameVars, timerVars, netVars, histVars>>

\* checkSessionAndUpdateUI() called by the load, visibilitychange and focus
\* events.
CheckSessionAndUpdateUI == PollBody(pollTimers)

\* A pending timer of checkSessionAndUpdateUI fires.
PollTimerFires ==
    \E kind \in {"short", "periodic"} :
        /\ pollTimers[kind] > 0
        /\ PollBody([pollTimers EXCEPT ![kind] = @ - 1])

\* reinitFlutterSession(), for external scripts: initFlutterParams() alone.
ReinitFlutterSession ==
    /\ loaded
    /\ ApplyParams(InitFlutterParams)
    /\ UNCHANGED <<loaded, url, gameSession, pollTimers>>
    /\ UNCHANGED <<timeVars, gameVars, timerVars, netVars, histVars>>

\* A message of msgs is delivered to the listeners initFlutterParams has
\* registered.  Each listener runs the same assignments on the same message,
\* and running them again changes nothing.
OnMessageFrom(msgs) ==
    /\ loaded
    /\ \E m \in msgs :
         IF m.type = "flutterParams"
         THEN LET sid == Or(m.sessionId, sessionId)
                  tok == Or(m.authToken, authToken)
              IN /\ poolId' = Or(m.poolId, poolId)
                 /\ sessionId' = sid
                 /\ authToken' = tok
                 /\ gameTimerDuration' = IF Len(m.timerDuration) > 0
                                         THEN ParseTimer(m.timerDuration)
                                         ELSE gameTimerDuration
                 /\ apiServerUrl' = IF Truthy(Or(m.apiServerUrl, m.apiServer))
                                    THEN Or(m.apiServerUrl, m.apiServer)
                                    ELSE apiServerUrl
                 /\ sessionReady' = IF SessionReady(sid, tok) THEN TRUE
                                    ELSE sessionReady
         ELSE UNCHANGED <<poolId, sessionId, authToken, gameTimerDuration, sessionReady,
                          apiServerUrl>>
    /\ UNCHANGED <<loaded, url, gameSession, posted, listeners, pollTimers>>
    /\ UNCHANGED <<timeVars, gameVars, timerVars, netVars, histVars>>

\* A message of the host arrives.
OnMessage == OnMessageFrom(Messages)

\* ------------------------------------------------------------------ timer
\* duration - elapsed, in units, for a timer started at start and read at t.
RemainingRaw(dur, start, t) == dur * UnitsPerSecond - (t - start)

\* Math.max(0, gameTimerDuration - elapsed)
Remaining(dur, start, t) == Max(0, RemainingRaw(dur, start, t))

HasExpiredEarly(rem) == rem <= 1

\* The frame's expiry check on the value it has just computed.
HasExpired(rem) == rem <= 0

PauseSnapshotZero(start, t) == 0

\* The elapsed-time snapshot pause() takes: (Date.now() - gameTimerStartTime).
PauseSnapshot(start, t) == t - start

ResumeStartTimeNoShift(start, pausedElapsed, t) == start

\* The start time after the compensation of an accepted resume:
\* gameTimerStartTime += Date.now() - (gameTimerStartTime + gameTimerPausedElapsed).
ResumeStartTime(start, pausedElapsed, t) == start + (t - (start + pausedElapsed))

ResumeCompensatesNever(prev, pausedElapsed, start) == FALSE

\* The condition of the compensation in the resume branch of pause().
ResumeCompensates(prev, pausedElapsed, start) ==
    prev = Some(1) /\ IsDefined(pausedElapsed) /\ IsDefined(start)

PauseIgnoredNoLock == gameState = 0 \/ gameState = 2

PauseIgnoredNoOver == gameState = 0 \/ ~pausable

\* pause() returns at once in these states.
PauseIgnored == gameState = 0 \/ gameState = 2 \/ ~pausable

\* ------------------------------------------------------- score submission
CanSubmitPoolOnly == Truthy(poolId)

CanSubmitNoPool == Truthy(sessionId) /\ Truthy(authToken)

\* sendMessageToFlutter(type, data): the messages sent after the call.  No
\* code of the game calls it.
SendMessageToFlutter(type, data) ==
    Append(hostNotices, [type |-> type, data |-> data])

\* The precondition check of submitScoreToFlutter.
CanSubmit == Truthy(poolId) /\ Truthy(sessionId) /\ Truthy(authToken)

\* The time computation and clamp of submitScoreToFlutter; timer is the value
\* of gameTimer (units), the result is in seconds.
TimeTaken(dur, timer) ==
    LET t == IF timer > 0 THEN CeilSeconds(dur * UnitsPerSecond - timer) ELSE dur
    IN Max(1, Min(dur, t))

\* submitScoreToFlutter(): the requests after the call, timer being gameTimer.
SubmitScoreToFlutter(timer) ==
    IF ~CanSubmit THEN requests
    ELSE Append(requests,
                [game |-> games, poolId |-> poolId, sessionId |-> sessionId,
                 authToken |-> authToken, base |-> SubmitBaseUrl, score |-> score,
                 time |-> TimeTaken(gameTimerDuration, timer),
                 state |-> "pending"])

\* The transition to game over with gameOverDisplay(); timer is gameTimer as
\* the frame has just computed it.
GameOver(cause, timer) ==
    /\ gameState' = 2
    /\ backButton' = TRUE
    /\ requests' = SubmitScoreToFlutter(timer)
    /\ hOver' = cause
    /\ hOverIds' = <<poolId, sessionId, authToken>>

HandleResponseLive(i, outcome) ==
    [requests EXCEPT ![i].state = outcome, ![i].sessionId = sessionId,
                     ![i].authToken = authToken]

HandleResponseRetry(i, outcome) ==
    IF outcome = "ok" THEN [requests EXCEPT ![i].state = outcome]
    ELSE Append([requests EXCEPT ![i].state = outcome],
                [requests[i] EXCEPT !.state = "pending"])

\* The then/catch handlers of the fetch: they log the outcome and do nothing
\* else.  The requests after request i has ended with the outcome, which the
\* request record keeps.
HandleResponse(i, outcome) == [requests EXCEPT ![i].state = outcome]

\* What a fetch can end in: a 2xx response with a JSON body, a 2xx response
\* whose body is not JSON, another status, no response.
Outcomes == {"ok", "malformed", "httpError", "networkError"}

\* The fetch of a pending request resolves (2xx or not) or rejects.
Response ==
    /\ \E i \in 1..Len(requests) :
         /\ requests[i].state = "pending"
         /\ \E outcome \in Outcomes :
              requests' = HandleResponse(i, outcome)
    /\ UNCHANGED <<score, games, hostNotices, backButton>>
    /\ UNCHANGED <<timeVars, sessVars, gameVars, timerVars, histVars>>

\* ------------------------------------------------------------- game state
StartGuardReady == loaded /\ gameState = 0 /\ sessionReady

\* The start button's handler runs its start action: the page has loaded and
\* shows the start screen.  The handler does not look at the session.
StartGuard == loaded /\ gameState = 0

\* The user's start action on the start screen, while fewer than n games
\* have been started.
StartGameUpTo(n) ==
    /\ StartGuard /\ games < n
    /\ gameState' = 1
    /\ gameTimer' = gameTimerDuration * UnitsPerSecond
    /\ gameTimerStartTime' = Some(now)
    /\ gameTimerPausedElapsed' = Undefined
    /\ score' = 0
    /\ games' = games + 1
    /\ backButton' = FALSE
    /\ hStart' = now /\ hPaused' = 0 /\ hPauseAt' = Undefined /\ hPauseRem' = Undefined
    /\ hPlayed' = 0 /\ hOver' = "none" /\ hOverIds' = <<>> /\ hCalls' = 0
    /\ hHostPause' = Undefined
    /\ UNCHANGED <<prevGameState, pausable, timeouts, requests, hostNotices>>
    /\ UNCHANGED <<timeVars, sessVars>>

\* The user's start action on the start screen.
StartGame == StartGameUpTo(MaxGames)

\* One animation frame: the timer update and expiry check, then the engine's
\* own game-over check (over: the blocks overflow in this frame).  The frame
\* of an instant stands for the frames of the 200 ms that follow, so it runs
\* after the callbacks due at that instant.
Tick(over) ==
    /\ loaded /\ ~ticked
    /\ \A t \in timeouts : t.due > now
    /\ ticked' = TRUE
    /\ IF gameState = 1 /\ IsDefined(gameTimerStartTime)
       THEN LET rem == Remaining(gameTimerDuration, Val(gameTimerStartTime), now)
            IN /\ gameTimer' = rem
               /\ IF HasExpired(rem) THEN GameOver("timer", rem)
                  ELSE IF over THEN GameOver("engine", rem)
                  ELSE UNCHANGED <<gameState, requests, backButton, hOver, hOverIds>>
       ELSE UNCHANGED <<gameState, requests, backButton, hOver, hOverIds, gameTimer>>
    /\ UNCHANGED <<now, prevGameState, pausable, timeouts, gameTimerStartTime,
                   gameTimerPausedElapsed, score, games, hostNotices>>
    /\ UNCHANGED <<hPauseRem, hStart, hPaused, hPauseAt, hPlayed, hCalls, hHostPause>>
    /\ UNCHANGED sessVars

\* The restart/back action on the game-over screen.
BackToMenu ==
    /\ gameState = 2
    /\ gameState' = 0
    /\ UNCHANGED <<prevGameState, pausable, timeouts>>
    /\ UNCHANGED <<timeVars, sessVars, timerVars, netVars, histVars>>

\* pause(): the toggle between playing and paused.
Pause ==
    /\ loaded
    /\ ~PauseIgnored
    /\ pausable' = FALSE
    /\ IF gameState = -1
       THEN /\ IF ResumeCompensates(prevGameState, gameTimerPausedElapsed,
                                    gameTimerStartTime)
               THEN /\ gameTimerStartTime' =
                          Some(ResumeStartTime(Val(gameTimerStartTime),
                                               Val(gameTimerPausedElapsed), now))
                    /\ gameTimerPausedElapsed' = Undefined
               ELSE UNCHANGED <<gameTimerStartTime, gameTimerPausedElapsed>>
            /\ timeouts' = timeouts \cup {[kind |-> "resumed", due |-> now + TransitionDelay]}
            /\ hPaused' = IF IsDefined(hPauseAt) THEN hPaused + (now - Val(hPauseAt))
                          ELSE hPaused
            /\ hCalls' = IF hPauseAt = Some(now) THEN Min(hCalls + 1, MaxCalls) ELSE 0
            /\ hPauseAt' = Undefined
            /\ UNCHANGED <<gameState, prevGameState, hPauseRem>>
       ELSE /\ prevGameState' = Some(gameState)
            /\ gameTimerPausedElapsed' =
                  IF IsDefined(gameTimerStartTime)
                  THEN Some(PauseSnapshot(Val(gameTimerStartTime), now))
                  ELSE gameTimerPausedElapsed
            /\ timeouts' = timeouts \cup {[kind |-> "paused", due |-> now + TransitionDelay]}
            /\ gameState' = -1
            /\ hPauseRem' = IF gameState = 1 /\ IsDefined(gameTimerStartTime)
                            THEN Some(RemainingRaw(gameTimerDuration,
                                                   Val(gameTimerStartTime), now))
                            ELSE Undefined
            /\ hPauseAt' = Some(now)
            /\ hCalls' = IF gameState = 1 THEN 1 ELSE 0
            /\ UNCHANGED <<gameTimerStartTime, hPaused>>
    /\ hHostPause' = Undefined
    /\ UNCHANGED <<gameTimer, hStart, hPlayed, hOver, hOverIds>>
    /\ UNCHANGED <<timeVars, sessVars, netVars>>

\* pause() called in a state where it returns at once: nothing changes but
\* the count of the calls made at the instant of the accepted pause.
PauseDropped ==
    /\ loaded /\ PauseIgnored /\ hCalls > 0
    /\ IF hPauseAt = Some(now)
       THEN hCalls < MaxCalls /\ hCalls' = hCalls + 1
       ELSE hCalls' = 0
    /\ UNCHANGED <<hPauseRem, hStart, hPaused, hPauseAt, hPlayed, hOver, hOverIds,
                   hHostPause>>
    /\ UNCHANGED <<timeVars, sessVars, gameVars, timerVars, netVars>>

HandlePauseAlways == TRUE

\* The guard of handlePause().
HandlePauseGuard == gameState = 1 \/ gameState = 2

\* handlePause(): the host's pause, backbutton and menubutton events.
HandlePause ==
    /\ HandlePauseGuard
    /\ Pause

\* handlePause() that does not call pause(), or calls it in a state where it
\* returns at once: nothing changes but the record of the state it found.
HandlePauseIgnored ==
    /\ loaded /\ (~HandlePauseGuard \/ PauseIgnored)
    /\ hHostPause # Some(gameState)
    /\ hHostPause' = Some(gameState)
    /\ UNCHANGED <<hPauseRem, hStart, hPaused, hPauseAt, hPlayed, hOver, hOverIds,
                   hCalls>>
    /\ UNCHANGED <<timeVars, sessVars, gameVars, timerVars, netVars>>

DueNever(t) == FALSE

\* The 400 ms of a callback of pause() have passed.
Due(t) == t.due <= now

ResumedStateMenu(prev) == 0

\* The state the callback of a resume sets: gameState = prevGameState.
ResumedState(prev) == Val(prev)

\* A callback pause() scheduled 400 ms earlier runs.
TimeoutFires ==
    /\ \E t \in timeouts :
         /\ Due(t)
         /\ timeouts' = timeouts \ {t}
         /\ pausable' = TRUE
         /\ IF t.kind = "resumed"
            THEN gameState' = ResumedState(prevGameState)
            ELSE UNCHANGED gameState
    /\ UNCHANGED prevGameState
    /\ UNCHANGED <<timeVars, sessVars, timerVars, netVars, histVars>>

\* 200 ms pass: the frame of this instant has run and no callback is due.
AdvanceTime ==
    /\ loaded /\ ticked /\ now < MaxNow
    /\ \A t \in timeouts : t.due > now
    /\ now' = now + 1
    /\ ticked' = FALSE
    /\ hPlayed' = IF gameState = 1 THEN hPlayed + 1 ELSE hPlayed
    /\ UNCHANGED <<hPauseRem, hStart, hPaused, hPauseAt, hOver, hOverIds, hCalls,
                   hHostPause>>
    /\ UNCHANGED <<sessVars, gameVars, timerVars, netVars>>

\* setMainMenu(): gameState = 4.  Its canRestart = false, restored after
\* 500 ms, is read by the start button only, which this state does not show.
SetMainMenu ==
    /\ loaded /\ gameState # 4
    /\ gameState' = 4
    /\ UNCHANGED <<prevGameState, pausable, timeouts>>
    /\ UNCHANGED <<timeVars, sessVars, timerVars, netVars, histVars>>

Next ==
    \/ Inject
    \/ DocumentReady
    \/ CheckSessionAndUpdateUI
    \/ PollTimerFires
    \/ ReinitFlutterSession
    \/ OnMessage
    \/ StartGame
    \/ \E over \in BOOLEAN : Tick(over)
    \/ BackToMenu
    \/ Pause
    \/ PauseDropped
    \/ HandlePause
    \/ HandlePauseIgnored
    \/ TimeoutFires
    \/ AdvanceTime
    \/ Response

Spec == Init /\ [][Next]_vars

\* The game and its timer, the session being resolved when the page loads.
InjectBeforeLoad == ~loaded /\ Inject

NextTimer ==
    \/ InjectBeforeLoad
    \/ DocumentReady
    \/ StartGame
    \/ \E over \in BOOLEAN : Tick(over)
    \/ BackToMenu
    \/ Pause
    \/ PauseDropped
    \/ HandlePause
    \/ HandlePauseIgnored
    \/ TimeoutFires
    \/ AdvanceTime
    \/ Response

SpecTimer == Init /\ [][NextTimer]_vars

\* One game and its timer, with setMainMenu() callable by the rest of the
\* page at any time after the load.
NextMainMenu ==
    \/ DocumentReady
    \/ StartGame
    \/ \E over \in BOOLEAN : Tick(over)
    \/ Pause
    \/ TimeoutFires
    \/ AdvanceTime
    \/ SetMainMenu

SpecMainMenu == Init /\ [][NextMainMenu]_vars

\* The game and its timer with the browser's scheduling: every callback that
\* is due runs, frames keep running and time passes.  Time stops at
\* MaxLiveNow, so pause() is called only while its callback can still run.
PauseInTime == now + TransitionDelay <= MaxLiveNow /\ Pause

HandlePauseInTime == now + TransitionDelay <= MaxLiveNow /\ HandlePause

AdvanceTimeLive == now < MaxLiveNow /\ AdvanceTime

FrameRuns == \E over \in BOOLEAN : Tick(over)

NextTimerLive ==
    \/ InjectBeforeLoad
    \/ DocumentReady
    \/ StartGame
    \/ FrameRuns
    \/ BackToMenu
    \/ PauseInTime
    \/ HandlePauseInTime
    \/ TimeoutFires
    \/ AdvanceTimeLive

SpecTimerLive ==
    /\ Init /\ [][NextTimerLive]_vars
    /\ WF_vars(TimeoutFires) /\ WF_vars(FrameRuns) /\ WF_vars(AdvanceTimeLive)

\* The events that can occur while a submit-score request is pending: host
\* messages, polls, the back action and a restart, pause and resume in the
\* next game, and the response.  The session comes from the query string and
\* from messages.
StartGameInFlight == StartGameUpTo(MaxGamesInFlight)

AdvanceTimeInFlight == now < MaxInFlightNow /\ AdvanceTime

NextInFlight ==
    \/ DocumentReady
    \/ CheckSessionAndUpdateUI
    \/ PollTimerFires
    \/ OnMessage
    \/ StartGameInFlight
    \/ \E over \in BOOLEAN : Tick(over)
    \/ BackToMenu
    \/ Pause
    \/ TimeoutFires
    \/ AdvanceTimeInFlight
    \/ Response

SpecInFlight == Init /\ [][NextInFlight]_vars

\* Session acquisition and score submission, without the pause toggle, up to
\* the end of the last game and the outcome of its request.
LastGameEnded == games = MaxGames /\ gameState # 1

AdvanceTimeSubmit == now < MaxSubmitNow /\ ~LastGameEnded /\ AdvanceTime

InjectSubmit == ~LastGameEnded /\ Inject

PollSubmit == ~LastGameEnded /\ (CheckSessionAndUpdateUI \/ PollTimerFires)

OnMessageSubmit == ~LastGameEnded /\ OnMessage

NextSubmit ==
    \/ InjectSubmit
    \/ DocumentReady
    \/ PollSubmit
    \/ OnMessageSubmit
    \/ StartGame
    \/ \E over \in BOOLEAN : Tick(over)
    \/ BackToMenu
    \/ AdvanceTimeSubmit
    \/ Response

SpecSubmit == Init /\ [][NextSubmit]_vars

\* Session acquisition alone: the page is loaded and no game is started.
AdvanceTimeSession == now < MaxSessionNow /\ AdvanceTime

NextSession ==
    \/ Inject
    \/ DocumentReady
    \/ CheckSessionAndUpdateUI
    \/ PollTimerFires
    \/ ReinitFlutterSession
    \/ OnMessage
    \/ \E over \in BOOLEAN : Tick(over)
    \/ AdvanceTimeSession

SpecSession == Init /\ [][NextSession]_vars

\* Session acquisition alone, the host's messages including those that carry
\* one identifier only.
OnMessageAny == OnMessageFrom(Messages \cup PartialMessages)

NextReady ==
    \/ Inject
    \/ DocumentReady
    \/ CheckSessionAndUpdateUI
    \/ PollTimerFires
    \/ ReinitFlutterSession
    \/ OnMessageAny
    \/ \E over \in BOOLEAN : Tick(over)
    \/ AdvanceTimeSession

SpecReady == Init /\ [][NextReady]_vars

\* ------------------------------------------------------ checked properties
\* A step in which pause() accepts a resume: paused, and pausable goes false.
ResumeAccepted == gameState = -1 /\ pausable /\ ~pausable'

\* A step that takes the game from playing to game over.
GameOverStep == gameState = 1 /\ gameState' = 2

\* A step that is an animation frame.
FrameStep == ~ticked /\ ticked' /\ now' = now

\* C1: when a resume is accepted after a pause that was accepted while playing
\* with remaining time r, the remaining time computed from the compensated
\* start time at that moment, duration - (now - startedAt), equals r, however
\* long the pause lasted and however many cycles came before.
C1_ResumeRestoresRemaining ==
    [][(ResumeAccepted /\ IsDefined(hPauseRem))
        => /\ IsDefined(gameTimerStartTime')
           /\ RemainingRaw(gameTimerDuration', Val(gameTimerStartTime'), now')
                = Val(hPauseRem)]_vars

\* A second resume has just been accepted, the pauses having lasted 1 s or
\* more in all, and the remaining time is that of the last pause.
C1_Witness ==
    /\ gameState = -1 /\ ~pausable /\ hPauseAt = Undefined
    /\ hPaused >= 5 /\ IsDefined(hPauseRem) /\ IsDefined(gameTimerStartTime)
    /\ gameTimerDuration = 1
    /\ \E t \in timeouts : t.kind = "resumed"

\* C2: a game of duration D >= 1 started at t0 and paused for P in all goes
\* to game over by timer expiry at wall-clock time t0 + D + P.
C2_ExpiryAtStartPlusDurationPlusPaused ==
    [][(GameOverStep /\ hOver' = "timer" /\ gameTimerDuration >= 1)
        => now = hStart + gameTimerDuration * UnitsPerSecond + hPaused]_vars

\* C3: while playing, the countdown's elapsed time, duration - remaining(),
\* is the wall-clock time the game has spent in the playing state (until the
\* countdown reaches zero).
C3_ElapsedIsTimePlayed ==
    (gameState = 1 /\ IsDefined(gameTimerStartTime) /\ gameTimerDuration >= 1
     /\ Remaining(gameTimerDuration, Val(gameTimerStartTime), now) > 0)
    => gameTimerDuration * UnitsPerSecond
         - Remaining(gameTimerDuration, Val(gameTimerStartTime), now) = hPlayed

\* C4 as stated: after a pause request and further pause/resume requests
\* issued at the same instant while playing, once the transition has settled
\* the game is playing again and remaining() is what it was before the pause.
C4_BackInPlayingAfterZeroGap ==
    (hCalls >= 2 /\ pausable /\ timeouts = {})
    => /\ gameState = 1
       /\ IsDefined(gameTimerStartTime) /\ IsDefined(hPauseRem)
       /\ RemainingRaw(gameTimerDuration, Val(gameTimerStartTime), now) = Val(hPauseRem)

\* C4 as amended: of the requests issued at one instant while playing only
\* the first is accepted; the game is and stays paused, the start time and
\* the snapshot are those of that pause, remaining() at that instant is what
\* it was before the pause, and the compensation of a resume at that instant
\* would leave the start time where it is.
C4_ZeroGapRequestsDropped ==
    hCalls >= 2
    => /\ gameState = -1 /\ prevGameState = Some(1)
       /\ IsDefined(hPauseAt) /\ IsDefined(hPauseRem) /\ IsDefined(gameTimerStartTime)
       /\ RemainingRaw(gameTimerDuration, Val(gameTimerStartTime), Val(hPauseAt))
            = Val(hPauseRem)
       /\ gameTimerPausedElapsed = Some(Val(hPauseAt) - Val(gameTimerStartTime))
       /\ ResumeStartTime(Val(gameTimerStartTime), Val(gameTimerPausedElapsed),
                          Val(hPauseAt)) = Val(gameTimerStartTime)

\* A pause accepted after 0.2 s or more of play was followed by another
\* request at the same instant, and the transition has settled.
C4_Witness ==
    /\ hCalls >= 2 /\ pausable /\ timeouts = {} /\ gameState = -1
    /\ IsDefined(hPauseAt) /\ IsDefined(gameTimerStartTime)
    /\ Val(hPauseAt) > Val(gameTimerStartTime)

\* C5: the game goes to game over by timer expiry only in a frame sampled
\* while playing with remaining() <= 0, every such frame takes the
\* transition, and a frame sampled in any other state changes no game state.
C5_ExpiryExactlyAtZero ==
    [][/\ (gameState' = 2 /\ gameState # 2 /\ hOver' = "timer")
            => /\ FrameStep /\ gameState = 1 /\ IsDefined(gameTimerStartTime)
               /\ gameTimerDuration * UnitsPerSecond
                    - (now - Val(gameTimerStartTime)) <= 0
       /\ (FrameStep /\ gameState = 1 /\ IsDefined(gameTimerStartTime)
           /\ gameTimerDuration * UnitsPerSecond - (now - Val(gameTimerStartTime)) <= 0)
            => (gameState' = 2 /\ hOver' = "timer")
       /\ (FrameStep /\ gameState # 1) => gameState' = gameState]_vars

\* The timer of a 1 s game has expired after a pause, 1 s of play and the
\* pause after the start.
C5_Witness ==
    /\ gameState = 2 /\ hOver = "timer" /\ gameTimerDuration = 1
    /\ hPaused > 0 /\ now >= hStart + UnitsPerSecond + hPaused

\* A step in which submitScoreToFlutter issues a request.
RequestIssued == Len(requests') = Len(requests) + 1

Clamp(x, lo, hi) == IF x < lo THEN lo ELSE IF x > hi THEN hi ELSE x

\* The time to report for a duration in seconds and a remaining timer in
\* units, as the claim gives it.
ReferenceTime(dur, rem) ==
    IF rem > 0 THEN Clamp(CeilSeconds(dur * UnitsPerSecond - rem), 1, dur) ELSE dur

\* C6: the time of every request issued is an integer between 1 and the timer
\* duration, whatever source set the duration.
C6_TimeWithinDuration ==
    [][RequestIssued
        => LET r == requests'[Len(requests')]
           IN r.time \in Int /\ 1 <= r.time /\ r.time <= gameTimerDuration]_vars

\* C7: the time of every request issued is the reference value for the
\* duration and the remaining timer at game over.
C7_TimeIsReference ==
    [][RequestIssued
        => requests'[Len(requests')].time
             = ReferenceTime(gameTimerDuration, gameTimer')]_vars

\* C8: a game over that finds sessionId or authToken empty issues no request.
C8_NoRequestWithoutSession ==
    [][(GameOverStep /\ (sessionId = NoValue \/ authToken = NoValue))
        => requests' = requests]_vars

\* A game ended while sessionId and authToken were empty though the pool
\* was known, and no request has been issued.
C8_Witness ==
    /\ gameState = 2 /\ requests = <<>>
    /\ hOverIds # <<>> /\ hOverIds[1] # NoValue
    /\ hOverIds[2] = NoValue /\ hOverIds[3] = NoValue

\* sessionId and authToken are set and the injected session, if any, has not
\* expired.
Usable ==
    /\ sessionId # NoValue /\ authToken # NoValue
    /\ (gameSession = Undefined \/ ~Expired(Val(gameSession), now))

\* C9 as stated: a game over with a usable session issues a request; a game
\* over that issues none had no usable session.
C9_UsableSessionSubmits ==
    [][GameOverStep
        => /\ Usable => RequestIssued
           /\ requests' = requests => ~Usable]_vars

\* C9 as amended: a game over issues a request, carrying these values, exactly
\* when poolId, sessionId and authToken are all non-empty.
C9_AllThreeIdsSubmit ==
    [][GameOverStep
        => IF poolId # NoValue /\ sessionId # NoValue /\ authToken # NoValue
           THEN /\ RequestIssued
                /\ LET r == requests'[Len(requests')]
                   IN /\ r.poolId = poolId /\ r.sessionId = sessionId
                      /\ r.authToken = authToken /\ r.state = "pending"
           ELSE requests' = requests]_vars

\* A game ended with the three values set and its request is pending.
C9_Witness ==
    /\ gameState = 2 /\ Len(requests) = 1 /\ requests[1].state = "pending"
    /\ hOverIds # <<>> /\ \A k \in 1..3 : hOverIds[k] # NoValue

\* C10: no game has more than one request, whether or not its request has
\* ended.
C10_AtMostOneRequestPerGame ==
    \A g \in 1..games :
        Cardinality({i \in 1..Len(requests) : requests[i].game = g}) <= 1

\* The request of the game has ended, the game is still over, and it is the
\* only request.
C10_Witness ==
    /\ gameState = 2 /\ Len(requests) = 1
    /\ requests[1].state \in Outcomes \ {"ok"} /\ requests[1].game = games

\* A step in which the fetch of request i ends.
RequestEnds(i) ==
    /\ i \in 1..Len(requests) /\ Len(requests') >= i
    /\ requests[i].state = "pending" /\ requests'[i].state \in Outcomes

\* The last message sent to the host in a step that sends exactly one.
NewNotice == hostNotices'[Len(hostNotices')]

\* C11: whatever the outcome of a request, the step in which it ends sends
\* the host exactly one message, of type scoreSubmitSuccess or
\* scoreSubmitError, and leaves the exit control shown.
C11_OutcomeNotifiedOnce ==
    [][\A i \in 1..Len(requests) :
         RequestEnds(i)
         => /\ Len(hostNotices') = Len(hostNotices) + 1
            /\ NewNotice.type \in {"scoreSubmitSuccess", "scoreSubmitError"}
            /\ backButton']_vars

\* C12: the message sent when a request ends is typed by the outcome: success
\* for a 2xx response, error with the HTTP status for another status, error
\* with status 0 when there was no response.
C12_OutcomeTyped ==
    [][\A i \in 1..Len(requests) :
         RequestEnds(i)
         => /\ Len(hostNotices') = Len(hostNotices) + 1
            /\ LET o == requests'[i].state
               IN IF o \in {"ok", "malformed"}
                  THEN NewNotice.type = "scoreSubmitSuccess"
                  ELSE /\ NewNotice.type = "scoreSubmitError"
                       /\ (o = "networkError") <=> (NewNotice.data.status = 0)]_vars

\* C13: a game over without a usable session makes no request, tells the host
\* at once and shows the exit control.
C13_SkipReportedToHost ==
    [][(GameOverStep /\ ~Usable)
        => /\ requests' = requests
           /\ Len(hostNotices') = Len(hostNotices) + 1
           /\ backButton']_vars

\* C14: every request is addressed to the current apiServerUrl, poolId and
\* sessionId and authorised with the current authToken.
C14_RequestAddress ==
    [][RequestIssued
        => LET r == requests'[Len(requests')]
           IN /\ r.base = apiServerUrl
              /\ r.poolId = poolId /\ r.sessionId = sessionId
              /\ r.authToken = authToken]_vars

\* A step that is a poll: checkSessionAndUpdateUI() from an event or a timer.
PollStep == CheckSessionAndUpdateUI \/ PollTimerFires

\* The non-empty values of a field in the messages the host may post.
MessageValues(f) ==
    {m[f] : m \in {x \in Messages : x.type = "flutterParams"}} \ {NoValue}

PlaceholderSession == "test-session-456"
PlaceholderToken == "test-token-789"
PlaceholderPool == "test-pool-123"

C16_RequestWhenNoIdentity ==
    [][PollStep
        => /\ Len(posted') <= 1
           /\ IsDefined(gameSession) => posted' = <<>>
           /\ (~IsDefined(gameSession) /\ url.debug # "true"
               /\ ~(Truthy(url.sessionId) /\ Truthy(url.authToken)))
              => posted' = <<"requestSessionParams">>]_vars

\* A step that calls initFlutterParams(): the load, a poll, a manual call.
InitParamsStep == DocumentReady \/ PollStep \/ ReinitFlutterSession

\* The identity the injected object or the query string gives a call of
\* initFlutterParams is empty.
NoIdentityResolved ==
    IF IsDefined(gameSession) THEN Expired(Val(gameSession), now)
    ELSE ~Truthy(url.sessionId) /\ ~Truthy(url.authToken)

\* C17: a placeholder value is in the session only if debug is 'true'; it is
\* put there only by a call of initFlutterParams that resolves no identity;
\* and with debug 'true' and nothing from any other source such a call ends
\* ready with the three placeholders.
C17_PlaceholdersOnlyInDebug ==
    [][/\ (\/ poolId' = PlaceholderPool \/ sessionId' = PlaceholderSession
           \/ authToken' = PlaceholderToken) => url.debug = "true"
       /\ (\/ sessionId' = PlaceholderSession /\ sessionId # PlaceholderSession
           \/ authToken' = PlaceholderToken /\ authToken # PlaceholderToken
           \/ poolId' = PlaceholderPool /\ poolId # PlaceholderPool)
            => InitParamsStep /\ url.debug = "true" /\ NoIdentityResolved
       /\ (InitParamsStep /\ url.debug = "true" /\ ~IsDefined(gameSession)
           /\ ~Truthy(url.poolId) /\ ~Truthy(url.sessionId) /\ ~Truthy(url.authToken)
           /\ poolId \in {NoValue, PlaceholderPool})
            => /\ sessionReady'
               /\ poolId' = PlaceholderPool /\ sessionId' = PlaceholderSession
               /\ authToken' = PlaceholderToken]_vars

\* With debug=true and no other source a poll has left the session ready with
\* the placeholders.
C17_Witness ==
    /\ loaded /\ url.debug = "true" /\ ~IsDefined(gameSession) /\ sessionReady
    /\ poolId = PlaceholderPool /\ sessionId = PlaceholderSession
    /\ authToken = PlaceholderToken /\ posted = <<>>

\* The injected object exists, its expiresAt has passed and debug is not on.
InjectedPastExpiry ==
    /\ IsDefined(gameSession) /\ url.debug # "true"
    /\ Val(gameSession).expiresAt # 0 /\ now > Val(gameSession).expiresAt

\* C18: a poll that finds the injected object expired, debug off, ends with
\* readiness false and sessionId and authToken empty (stated as: a step from
\* such a state that ends otherwise is not a poll); a game over in the state
\* the poll leaves issues no request.
C18_ExpiredInjectedSession ==
    [][/\ (InjectedPastExpiry
           /\ (sessionReady' \/ sessionId' # NoValue \/ authToken' # NoValue))
            => ~PollStep
       /\ (GameOverStep /\ InjectedPastExpiry /\ ~sessionReady
           /\ sessionId = NoValue /\ authToken = NoValue)
            => requests' = requests]_vars

\* The 100 ms poll has run, a poll has found the injected object expired,
\* and the game that ended afterwards issued no request.
C18_Witness ==
    /\ loaded /\ pollTimers.short = 0 /\ InjectedPastExpiry
    /\ ~sessionReady /\ sessionId = NoValue /\ authToken = NoValue
    /\ gameState = 2 /\ games = 1 /\ requests = <<>>
    /\ hOverIds # <<>> /\ hOverIds[2] = NoValue /\ hOverIds[3] = NoValue

\* C19: in every state, debug aside and once the 100 ms poll has run,
\* readiness is true only if sessionId and authToken are non-empty and the
\* time has not passed the expiresAt of the injected object, if it has one.
C19_ReadyOnlyIfUsable ==
    (sessionReady /\ url.debug # "true" /\ pollTimers.short = 0)
        => /\ sessionId # NoValue /\ authToken # NoValue
           /\ (IsDefined(gameSession) /\ Val(gameSession).expiresAt # 0)
                => now <= Val(gameSession).expiresAt

\* C20: in every state after the load in which readiness is false a poll is
\* pending, the 100 ms one or a 500 ms one.
C20_PollPendingWhileNotReady ==
    (loaded /\ ~sessionReady) => pollTimers.short + pollTimers.periodic > 0

\* C21: from a state where sessionId and authToken are non-empty and the
\* injected object, if any, has not expired, no poll and no inbound message
\* ends with sessionId or authToken empty or with readiness false.
C21_UsableSessionKept ==
    [][(/\ sessionId # NoValue /\ authToken # NoValue
        /\ ~(IsDefined(gameSession) /\ Expired(Val(gameSession), now))
        /\ (sessionId' = NoValue \/ authToken' = NoValue \/ ~sessionReady'))
        => ~(PollStep \/ OnMessage)]_vars

\* The listed transitions, as pairs of gameState values: start, pause,
\* resume, game over, back.
ListedTransitions == {<<0, 1>>, <<1, -1>>, <<-1, 1>>, <<1, 2>>, <<2, 0>>}

ResumePending == \E t \in timeouts : t.kind = "resumed"

\* C23 as stated: a pause request of either kind, pause() or handlePause(),
\* that arrives while the game is paused changes neither the game state nor
\* the start time nor the snapshot, and starts no resume.
C23_PauseWhilePausedNoOp ==
    [][(gameState = -1 /\ ~ResumePending
        /\ (Pause \/ PauseDropped \/ HandlePause \/ HandlePauseIgnored))
        => /\ UNCHANGED <<gameState, gameTimerStartTime, gameTimerPausedElapsed>>
           /\ ~ResumePending']_vars

\* C23 as amended: handlePause() arriving while the game is paused changes
\* no game state and no timer state; pause() arriving while the game is
\* paused and pause input is accepted is the resume request: it starts the
\* resume.
C23_HostPauseWhilePausedNoOp ==
    [][/\ (gameState = -1 /\ (HandlePause \/ HandlePauseIgnored))
            => UNCHANGED <<gameVars, timerVars>>
       /\ (gameState = -1 /\ pausable /\ Pause)
            => gameState' = -1 /\ ~pausable' /\ ResumePending']_vars

\* handlePause() has arrived while the game was paused with its snapshot
\* taken, and the game is still paused.
C23_Witness ==
    /\ gameState = -1 /\ hHostPause = Some(-1) /\ prevGameState = Some(1)
    /\ IsDefined(gameTimerPausedElapsed) /\ ~ResumePending

\* C24: while pause input is not accepted (the 400 ms after an accepted
\* pause or resume) a pause() or handlePause() call changes no game state and
\* no timer state; the only step that changes them in the window is the
\* callback that ends it, which sets pausable, lands the resume if it ends a
\* resume, and schedules and replays nothing.
C24_DroppedWhileTransitioning ==
    [][~pausable
        => /\ (Pause \/ HandlePause \/ PauseDropped \/ HandlePauseIgnored)
                => UNCHANGED <<gameVars, timerVars>>
           /\ <<gameVars, timerVars>>' # <<gameVars, timerVars>>
                => /\ TimeoutFires
                   /\ timeouts' = {} /\ pausable' /\ prevGameState' = prevGameState
                   /\ gameState' = IF ResumePending THEN Val(prevGameState) ELSE gameState
                   /\ UNCHANGED timerVars]_vars

\* A second request arrived in the window of a pause accepted while playing
\* and the window is still open.
C24_Witness ==
    /\ hCalls >= 2 /\ ~pausable /\ gameState = -1 /\ timeouts # {}
    /\ IsDefined(gameTimerPausedElapsed)

\* A callback of this kind is pending.
Pending(kind) == \E t \in timeouts : t.kind = kind

\* C25: while pause input is not accepted a callback is pending, due at most
\* 400 ms ahead; an accepted pause leads to pause input accepted again with
\* the game paused, an accepted resume to pause input accepted again with the
\* game playing.
C25_TransitionEnds ==
    /\ [](~pausable => /\ timeouts # {}
                       /\ \A t \in timeouts : t.due <= now + TransitionDelay)
    /\ (Pending("paused") ~> (pausable /\ gameState = -1 /\ timeouts = {}))
    /\ (Pending("resumed") ~> (pausable /\ gameState = 1 /\ timeouts = {}))

\* The window of a resume has ended 400 ms after a resume that was accepted
\* after a pause of 400 ms or more, and the game is playing.
C25_Witness ==
    /\ pausable /\ timeouts = {} /\ gameState = 1 /\ hPaused >= TransitionDelay
    /\ hCalls = 0 /\ now >= 2 * TransitionDelay

\* C26: in game over no step changes prevGameState, pausable, the pending
\* callbacks or the timer variables, and the only step that changes
\* gameState is the back action, to the start screen.
C26_GameOverIsTerminal ==
    [][gameState = 2
        => /\ UNCHANGED <<prevGameState, pausable, timeouts, timerVars>>
           /\ gameState' # 2 => BackToMenu /\ gameState' = 0]_vars

\* In game over a frame has run and a host pause signal has arrived, and the
\* game is still over with its start time kept.
C26_Witness ==
    /\ gameState = 2 /\ ticked /\ hHostPause = Some(2) /\ now > hStart
    /\ IsDefined(gameTimerStartTime)

\* C27: the transition from playing to game over leaves the start time of
\* the timer absent.
C27_TimerStoppedAtGameOver ==
    [][GameOverStep => gameTimerStartTime' = Undefined]_vars

C29_SnapshotRecordedOnce ==
    [][/\ (gameState = 1 /\ gameState' = -1 /\ IsDefined(gameTimerStartTime))
            => /\ Pause \/ HandlePause
               /\ gameTimerPausedElapsed' = Some(now - Val(gameTimerStartTime))
               /\ gameTimerStartTime' = gameTimerStartTime
       /\ (IsDefined(gameTimerPausedElapsed)
           /\ gameTimerPausedElapsed' # gameTimerPausedElapsed)
            => ResumeAccepted /\ gameTimerPausedElapsed' = Undefined]_vars

\* The game has been paused for 400 ms or more after 200 ms or more of play
\* and the snapshot is still the elapsed time at the pause.
C29_Witness ==
    /\ gameState = -1 /\ pausable /\ timeouts = {}
    /\ IsDefined(hPauseAt) /\ IsDefined(gameTimerStartTime)
    /\ now >= Val(hPauseAt) + TransitionDelay
    /\ Val(hPauseAt) > Val(gameTimerStartTime)
    /\ gameTimerPausedElapsed = Some(Val(hPauseAt) - Val(gameTimerStartTime))

\* What a request carries.
Carried(r) == <<r.game, r.poolId, r.sessionId, r.authToken, r.base, r.score, r.time>>

\* C30: a request carries the score, time, poolId, sessionId and authToken of
\* the step that issued it; afterwards no step removes it or changes what it
\* carries, and its state changes only from pending, by its response.
C30_InFlightRequestIsSnapshot ==
    [][/\ Len(requests') >= Len(requests)
       /\ \A i \in 1..Len(requests) :
            /\ Carried(requests'[i]) = Carried(requests[i])
            /\ requests'[i].state # requests[i].state
                 => requests[i].state = "pending" /\ Response
       /\ RequestIssued
            => /\ GameOverStep
               /\ LET r == requests'[Len(requests')]
                  IN /\ r.poolId = poolId /\ r.sessionId = sessionId
                     /\ r.authToken = authToken /\ r.score = score
                     /\ r.state = "pending"]_vars

\* The request of the first game is still pending while the session's
\* identity has changed, the game has been restarted, and a resume has been
\* accepted in the second game.
C30_Witness ==
    /\ Len(requests) >= 1 /\ requests[1].state = "pending" /\ requests[1].game = 1
    /\ sessionId # requests[1].sessionId
    /\ games = 2 /\ prevGameState = Some(1) /\ ResumePending

\* C31: on the start screen the start action can be taken whether or not the
\* session is ready, and leads to playing; a game over that finds sessionId
\* or authToken empty is the same transition as any other (game over
\* screen, back button shown, timer variables as the frame left them) except
\* that no request is issued.
C31_StartWithoutSession ==
    /\ []((loaded /\ gameState = 0 /\ games < MaxGames) => ENABLED StartGame)
    /\ [][/\ (gameState = 0 /\ gameState' # 0) => gameState' = 1
          /\ (GameOverStep /\ (sessionId = NoValue \/ authToken = NoValue))
               => /\ gameState' = 2 /\ backButton' /\ requests' = requests
                  /\ UNCHANGED <<prevGameState, pausable, timeouts, score, games,
                                 gameTimerStartTime, gameTimerPausedElapsed>>]_vars

\* A game started while the session was not ready has ended, with the back
\* button shown and no request.
C31_Witness ==
    /\ gameState = 2 /\ games = 1 /\ ~sessionReady /\ backButton /\ requests = <<>>
    /\ sessionId = NoValue /\ authToken = NoValue /\ pollTimers.periodic > 0
    /\ hOverIds # <<>> /\ hOverIds[2] = NoValue

\* C32: after every poll apiServerUrl is the injected object's apiServerUrl or
\* apiServer when it gives one, otherwise the query string's apiServerUrl or
\* apiServer when it gives one, otherwise the default address; this also
\* when an injected object exists and carries no address.  Polls that find a
\* value left by an inbound message are set aside.
C32_ApiServerByPriority ==
    [][(/\ apiServerUrl \notin MessageValues("apiServerUrl")
        /\ PollStep)
         => apiServerUrl' =
              LET inj == IF IsDefined(gameSession)
                         THEN Or(Val(gameSession).apiServerUrl, Val(gameSession).apiServer)
                         ELSE NoValue
                  q == Or(url.apiServerUrl, url.apiServer)
              IN IF Truthy(inj) THEN inj
                 ELSE IF Truthy(q) THEN q
                 ELSE DefaultApiServerUrl]_vars

\* var scoreSubmitting = false; var scoreSubmissionComplete = false; no
\* statement of the program assigns either of them afterwards.
scoreSubmitting == FALSE
scoreSubmissionComplete == FALSE

\* C33: while a score request is in flight the back button is not shown,
\* scoreSubmitting is true and scoreSubmissionComplete is false; when no
\* request is in flight after a game over, scoreSubmitting is false,
\* scoreSubmissionComplete is true and the back button is shown.
C33_BackButtonAfterSubmission ==
    /\ (\E i \in DOMAIN requests : requests[i].state = "pending")
         => ~backButton /\ scoreSubmitting /\ ~scoreSubmissionComplete
    /\ (/\ gameState = 2 /\ requests # <<>>
        /\ \A i \in DOMAIN requests : requests[i].state # "pending")
         => backButton /\ ~scoreSubmitting /\ scoreSubmissionComplete

\* C34: the callback of an accepted resume sets gameState to the state before
\* the pause only when the game is still paused as it runs; when the state
\* has changed during the 400 ms, the callback leaves it as it is.
C34_ResumeCallbackOnlyWhilePaused ==
    [][(\E t \in timeouts : t.kind = "resumed" /\ t \notin timeouts')
         => /\ gameState = -1 => gameState' = Val(prevGameState)
            /\ gameState # -1 => gameState' = gameState]_vars

\* C35: while playing, the remaining time a frame computes is never larger
\* than the one the previous frame of the same game computed, whatever polls
\* and inbound messages run between the two frames.
C35_RemainingNeverIncreases ==
    [][(/\ gameState = 1 /\ now > hStart + 1
        /\ FrameStep)
         => gameTimer' <= gameTimer]_vars

\* C36: whatever polls and messages have run and whatever timer value a
\* source gave (none, zero, negative, not a number), gameTimerDuration is an
\* integer of at least 1.
C36_DurationPositive == gameTimerDuration \in Nat \ {0}

\* C37: in every state the timer's start time, when there is one, is not
\* after the current time, so the elapsed time is not negative, and the
\* remaining time lies between 0 and the duration.
C37_StartNotAfterNow ==
    IsDefined(gameTimerStartTime)
      => /\ Val(gameTimerStartTime) <= now
         /\ 0 <= Remaining(gameTimerDuration, Val(gameTimerStartTime), now)
         /\ Remaining(gameTimerDuration, Val(gameTimerStartTime), now)
              <= gameTimerDuration * UnitsPerSecond

\* C38: between any two events sessionReady is true exactly when sessionId
\* and authToken are both non-empty.
C38_ReadyIffIdentified ==
    sessionReady <=> (sessionId # NoValue /\ authToken # NoValue)

\* A message has given the session identifier alone: the token is empty and
\* the session is not ready, a poll being pending.
C38_Witness ==
    /\ loaded /\ sessionId = "msg-session" /\ authToken = NoValue /\ ~sessionReady
    /\ pollTimers.periodic > 0

\* C39: at any time at most one periodic (500 ms) session poll is pending.
C39_OnePeriodicPoll == pollTimers.periodic <= 1

\* C40: however many polls have run, at most one message listener is
\* registered, so a flutterParams message is applied once.
C40_OneListener == listeners \in {"none", "one"}

====
